---- MODULE Spec2Model ----
(***************************************************************************)
(* Model of eagleproto.py, the prototyping-board generator: the resolution *)
(* of the pad counts, the mounting holes, and the pad generation loop.     *)
(*                                                                         *)
(* Lengths.  The script computes with inches.  The model counts every      *)
(* length of the inch domain in units of 0.0005 inch, so 0.1 inch is 200,  *)
(* the border 0.015 inch is 30 and the 0.1875 inch of too_close is 375.    *)
(* Coordinates are computed in the exact arithmetic of the reals that the  *)
(* floating-point code approximates; the board sizes and pitches drawn in  *)
(* Init are even, so the halving of lines 246-247 is exact.  The one place *)
(* where the rounding of a double changes an integer result, math.floor of *)
(* lines 91 and 96, is modelled with that rounding (FloatQuotientShort).   *)
(* Millimetre values (the results of in_to_mm) are counted in units of     *)
(* 0.0001 mm; the "%.3f" rendering of the serialiser is not modelled.      *)
(*                                                                         *)
(* An optional command-line value (args.w, args.l) is <<>> for Python's    *)
(* None and <<n>> for the integer n.                                       *)
(***************************************************************************)
EXTENDS Integers, Sequences, FiniteSets

\* ---- bounds of the model ----
MaxBoard == 3
MaxCount == 3
MaxCorner == 3

\* ---- program constants ----
border == 30
default_threshold == 375
default_mtg == 250

None == <<>>

Widths == {20} \cup {200 * n : n \in 1..MaxBoard}
Lengths == {20} \cup {200 * n + 30 : n \in 1..MaxBoard}
Grids == {200, 300}
Insets == {375, 100}
Counts == {None} \cup {<<n>> : n \in (-1)..MaxCount}
Corners == (-1)..MaxCorner

VARIABLES args, pc,
          width, height, inset, mtg_hole_dia, grid_pitch,
          exclude_corner_pads, pads_h, pads_w,
          holes, plain_holes,
          pad_x_orig, pad_y_orig, signal_number,
          i, j, x, signals, grid

vars == <<args, pc, width, height, inset, mtg_hole_dia, grid_pitch,
          exclude_corner_pads, pads_h, pads_w, holes, plain_holes,
          pad_x_orig, pad_y_orig, signal_number, i, j, x, signals, grid>>

\* ---- pure helpers ----

\* The quotient of lines 91 and 96 is an IEEE double.  Where (dimension -
\* border) is an exact multiple of grid_pitch the double may fall just below
\* the integer, and math.floor then returns one less than the exact floor.
\* These are the (dimension, pitch) pairs, among the dimensions up to 1030
\* (0.515 inch) and the pitches 200 and 300 (0.1 and 0.15 inch), where
\* Python evaluates math.floor((dimension-0.015)/pitch) to one less:
\* (0.315-0.015)/0.1 and (0.415-0.015)/0.1 are 2.9999999999999996 and
\* 3.9999999999999996.
FloatQuotientShort == {<<630, 200>>, <<830, 200>>}

\* math.floor((dimension-border)/grid_pitch), lines 91 and 96
ComputedCountNoBorder(dimension, pitch) == dimension \div pitch
ComputedCount(dimension, pitch) ==
    LET q == (dimension - border) \div pitch
    IN  IF <<dimension, pitch>> \in FloatQuotientShort THEN q - 1 ELSE q

\* "if args.X is not None: count = args.X  else: count = floor(...)"
ResolveCountTruthy(arg, dimension, pitch) ==
    IF arg # None /\ arg[1] # 0 THEN arg[1] ELSE ComputedCount(dimension, pitch)
ResolveCount(arg, dimension, pitch) ==
    IF arg # None THEN arg[1] ELSE ComputedCount(dimension, pitch)

\* the holes list of lines 101-104, x outer, y inner
HolePositionsSwapped(in, w, h) ==
    << <<in, in>>, <<in, w - in>>, <<h - in, in>>, <<h - in, w - in>> >>
HolePositions(in, w, h) ==
    << <<in, in>>, <<in, h - in>>, <<w - in, in>>, <<w - in, h - in>> >>

\* distance(c1, c2) squared; the code compares sqrt(d2) < threshold, which
\* for threshold >= 0 is d2 < threshold^2
distance2(c1, c2) == (c2[1] - c1[1]) * (c2[1] - c1[1]) + (c2[2] - c1[2]) * (c2[2] - c1[2])

too_close(px, py, threshold) ==
    \E n \in 1..Len(holes) : distance2(<<px, py>>, holes[n]) < threshold * threshold

\* x * 25.4: one unit of 0.0005 inch is 0.0127 mm, that is 127 units of 0.0001 mm
in_to_mm(v) == v * 127

\* (dimension - (count - 1) * grid_pitch)/2, lines 246-247
PadOriginOffByOne(dimension, count, pitch) == (dimension - count * pitch) \div 2
PadOrigin(dimension, count, pitch) == (dimension - (count - 1) * pitch) \div 2

\* the condition of the "continue" of lines 254-257
ExcludedIgnoringNoMtg(ii, jj) ==
    /\ ((ii < exclude_corner_pads) \/ (ii >= pads_w - exclude_corner_pads))
    /\ ((jj < exclude_corner_pads) \/ (jj >= pads_h - exclude_corner_pads))
ExcludedOffByOne(ii, jj) ==
    /\ ~args.no_mtg
    /\ ((ii < exclude_corner_pads) \/ (ii > pads_w - exclude_corner_pads))
    /\ ((jj < exclude_corner_pads) \/ (jj >= pads_h - exclude_corner_pads))
ExcludedEitherAxis(ii, jj) ==
    /\ ~args.no_mtg
    /\ \/ ((ii < exclude_corner_pads) \/ (ii >= pads_w - exclude_corner_pads))
       \/ ((jj < exclude_corner_pads) \/ (jj >= pads_h - exclude_corner_pads))
ExcludedByDistance(ii, jj) ==
    /\ ~args.no_mtg
    /\ too_close(x, pad_y_orig + jj * grid_pitch, default_threshold)
ExcludedLowCornersOnly(ii, jj) ==
    /\ ~args.no_mtg
    /\ ((ii < exclude_corner_pads) \/ (ii >= pads_w - exclude_corner_pads))
    /\ (jj < exclude_corner_pads)
Excluded(ii, jj) ==
    /\ ~args.no_mtg
    /\ ((ii < exclude_corner_pads) \/ (ii >= pads_w - exclude_corner_pads))
    /\ ((jj < exclude_corner_pads) \/ (jj >= pads_h - exclude_corner_pads))

\* signal_number after one iteration of the inner loop: the "continue" of
\* line 257 leaves it alone, line 258 increments it
SignalNumberAlways(n, skip) == n + 1
SignalNumberAfter(n, skip) == IF skip THEN n ELSE n + 1

\* ---- initial state: the parsed command line (lines 49-68) ----
Init ==
    /\ args \in [width : Widths, length : Lengths, w : Counts, l : Counts,
                 grid : Grids, no_mtg : BOOLEAN, mtg : {default_mtg},
                 inset : Insets, corner : Corners]
    /\ pc = "resolve"
    /\ width = 0 /\ height = 0 /\ inset = 0 /\ mtg_hole_dia = None
    /\ grid_pitch = 0 /\ exclude_corner_pads = 0
    /\ pads_h = 0 /\ pads_w = 0
    /\ holes = <<>> /\ plain_holes = <<>>
    /\ pad_x_orig = 0 /\ pad_y_orig = 0 /\ signal_number = 0
    /\ i = 0 /\ j = 0 /\ x = 0
    /\ signals = <<>> /\ grid = <<>>

\* lines 71-96
Resolve ==
    /\ pc = "resolve"
    /\ width' = args.width
    /\ height' = args.length
    /\ inset' = args.inset
    /\ mtg_hole_dia' = IF args.no_mtg THEN None ELSE <<args.mtg>>
    /\ grid_pitch' = args.grid
    /\ exclude_corner_pads' = args.corner
    /\ pads_h' = ResolveCount(args.l, args.length, args.grid)
    /\ pads_w' = ResolveCount(args.w, args.width, args.grid)
    /\ pc' = "holes"
    /\ UNCHANGED <<args, holes, plain_holes, pad_x_orig, pad_y_orig,
                   signal_number, i, j, x, signals, grid>>

\* lines 101-104
BuildHoles ==
    /\ pc = "holes"
    /\ holes' = HolePositions(inset, width, height)
    /\ pc' = "emit_holes"
    /\ UNCHANGED <<args, width, height, inset, mtg_hole_dia, grid_pitch,
                   exclude_corner_pads, pads_h, pads_w, plain_holes,
                   pad_x_orig, pad_y_orig, signal_number, i, j, x, signals, grid>>

\* lines 236-240: one <hole> element per entry of holes, unless --no-mtg
EmitHoles ==
    /\ pc = "emit_holes"
    /\ plain_holes' =
         IF ~args.no_mtg
         THEN [n \in 1..Len(holes) |->
                 [x |-> in_to_mm(holes[n][1]), y |-> in_to_mm(holes[n][2]),
                  drill |-> in_to_mm(mtg_hole_dia[1])]]
         ELSE <<>>
    /\ pc' = "origin"
    /\ UNCHANGED <<args, width, height, inset, mtg_hole_dia, grid_pitch,
                   exclude_corner_pads, pads_h, pads_w, holes,
                   pad_x_orig, pad_y_orig, signal_number, i, j, x, signals, grid>>

\* lines 246-249
ComputeOrigin ==
    /\ pc = "origin"
    /\ pad_x_orig' = PadOrigin(width, pads_w, grid_pitch)
    /\ pad_y_orig' = PadOrigin(height, pads_h, grid_pitch)
    /\ signal_number' = 0
    /\ i' = 0
    /\ pc' = "outer"
    /\ UNCHANGED <<args, width, height, inset, mtg_hole_dia, grid_pitch,
                   exclude_corner_pads, pads_h, pads_w, holes, plain_holes,
                   j, x, signals, grid>>

\* lines 250-251: the next value of "for i in range(pads_w)"
OuterStep ==
    /\ pc = "outer"
    /\ i < pads_w
    /\ x' = pad_x_orig + i * grid_pitch
    /\ j' = 0
    /\ pc' = "inner"
    /\ UNCHANGED <<args, width, height, inset, mtg_hole_dia, grid_pitch,
                   exclude_corner_pads, pads_h, pads_w, holes, plain_holes,
                   pad_x_orig, pad_y_orig, signal_number, i, signals, grid>>

\* lines 252-266: one iteration of "for j in range(pads_h)".  grid records
\* every position the loop computes (x of line 251, y of line 253), before
\* the exclusion test; a signal keeps the indices (i, j) it was made at.
InnerStep ==
    /\ pc = "inner"
    /\ j < pads_h
    /\ LET y == pad_y_orig + j * grid_pitch
           skip == Excluded(i, j)
           n == SignalNumberAfter(signal_number, skip)
       IN  /\ grid' = Append(grid, [i |-> i, j |-> j, x |-> x, y |-> y])
           /\ signal_number' = n
           /\ signals' =
                IF skip THEN signals
                ELSE Append(signals,
                            [name |-> n, i |-> i, j |-> j,
                             x |-> in_to_mm(x), y |-> in_to_mm(y)])
    /\ j' = j + 1
    /\ UNCHANGED <<args, pc, width, height, inset, mtg_hole_dia, grid_pitch,
                   exclude_corner_pads, pads_h, pads_w, holes, plain_holes,
                   pad_x_orig, pad_y_orig, i, x>>

\* the inner range is exhausted: back to line 250
InnerDone ==
    /\ pc = "inner"
    /\ j >= pads_h
    /\ i' = i + 1
    /\ pc' = "outer"
    /\ UNCHANGED <<args, width, height, inset, mtg_hole_dia, grid_pitch,
                   exclude_corner_pads, pads_h, pads_w, holes, plain_holes,
                   pad_x_orig, pad_y_orig, signal_number, j, x, signals, grid>>

\* the outer range is exhausted: lines 268-273, the document is written
Finish ==
    /\ pc = "outer"
    /\ i >= pads_w
    /\ pc' = "done"
    /\ UNCHANGED <<args, width, height, inset, mtg_hole_dia, grid_pitch,
                   exclude_corner_pads, pads_h, pads_w, holes, plain_holes,
                   pad_x_orig, pad_y_orig, signal_number, i, j, x, signals, grid>>

Next ==
    \/ Resolve
    \/ BuildHoles
    \/ EmitHoles
    \/ ComputeOrigin
    \/ OuterStep
    \/ InnerStep
    \/ InnerDone
    \/ Finish

Spec == Init /\ [][Next]_vars

\* ---- vocabulary of the properties ----

Done == pc = "done"
Resolved == pc # "resolve"
MountingEnabled == ~args.no_mtg

\* the grid indices the loop ranges over
GridIndices == (0..(pads_w - 1)) \X (0..(pads_h - 1))
\* the indices of the emitted pads, and the identifiers of the emitted signals
EmittedIndices == {<<signals[n].i, signals[n].j>> : n \in 1..Len(signals)}
SignalIds == {signals[n].name : n \in 1..Len(signals)}
EmittedAt(ii, jj) == <<ii, jj>> \in EmittedIndices
Min(a, b) == IF a <= b THEN a ELSE b
ColumnMajorBefore(a, b) == a[1] < b[1] \/ (a[1] = b[1] /\ a[2] < b[2])

\* C1: with mounting holes disabled and W >= 1, H >= 1, whatever the excluded
\* corner depth is, exactly W*H pads are emitted and the signal identifiers
\* are exactly 1..W*H, none used twice.
C1_NoMountingFullGrid ==
    (Done /\ args.no_mtg /\ pads_w >= 1 /\ pads_h >= 1) =>
        /\ Len(signals) = pads_w * pads_h
        /\ SignalIds = 1..(pads_w * pads_h)
        /\ Cardinality(SignalIds) = Len(signals)
        /\ EmittedIndices = GridIndices

C1_Witness ==
    /\ Done /\ args.no_mtg /\ pads_w >= 2 /\ pads_h >= 3
    /\ exclude_corner_pads >= 1
    /\ Len(signals) = pads_w * pads_h

\* C2: with mounting holes enabled and corner depth k >= 0, W >= 1, H >= 1,
\* the number of emitted pads is W*H minus the number of distinct grid
\* positions covered by the four k-by-k corner blocks (a position under
\* several blocks counted once), which is W*H - min(W,2k)*min(H,2k).
CornerBlock(lowX, lowY) ==
    {p \in GridIndices :
        /\ IF lowX THEN p[1] < exclude_corner_pads
                   ELSE p[1] >= pads_w - exclude_corner_pads
        /\ IF lowY THEN p[2] < exclude_corner_pads
                   ELSE p[2] >= pads_h - exclude_corner_pads}
CornerCover ==
    CornerBlock(TRUE, TRUE) \cup CornerBlock(TRUE, FALSE)
        \cup CornerBlock(FALSE, TRUE) \cup CornerBlock(FALSE, FALSE)

C2_MountingPadCount ==
    (Done /\ MountingEnabled /\ exclude_corner_pads >= 0
          /\ pads_w >= 1 /\ pads_h >= 1) =>
        /\ Len(signals) = pads_w * pads_h - Cardinality(CornerCover)
        /\ Len(signals) = pads_w * pads_h
                            - Min(pads_w, 2 * exclude_corner_pads)
                              * Min(pads_h, 2 * exclude_corner_pads)

\* overlapping corner blocks on one axis, pads left on the other
C2_Witness ==
    /\ Done /\ MountingEnabled
    /\ exclude_corner_pads >= 1
    /\ pads_w >= 1 /\ pads_w < 2 * exclude_corner_pads
    /\ pads_h > 2 * exclude_corner_pads
    /\ Len(signals) > 0 /\ Len(signals) < pads_w * pads_h

\* C3: at every point of the run the signals emitted so far carry the
\* consecutive identifiers 1..N in emission order (no gap where a pad was
\* skipped), one pad per signal, and identifiers follow column-major order:
\* of two emitted pads the one with the smaller identifier is the one with
\* the smaller i, or the same i and the smaller j.
C3_SequentialColumnMajor ==
    /\ signal_number = Len(signals)
    /\ \A n \in 1..Len(signals) : signals[n].name = n
    /\ Cardinality(EmittedIndices) = Len(signals)
    /\ \A m, n \in 1..Len(signals) :
          (signals[m].name < signals[n].name)
              <=> ColumnMajorBefore(<<signals[m].i, signals[m].j>>,
                                    <<signals[n].i, signals[n].j>>)

\* a pad emitted after a skipped one, in a later column than the first pad
C3_Witness ==
    /\ Done /\ Len(signals) >= 3
    /\ \E n \in 1..Len(grid) :
          /\ ~EmittedAt(grid[n].i, grid[n].j)
          /\ \E m \in 1..Len(signals) :
                ColumnMajorBefore(<<grid[n].i, grid[n].j>>,
                                  <<signals[m].i, signals[m].j>>)
    /\ signals[Len(signals)].i > signals[1].i

\* C4: with mounting enabled exactly four holes are emitted, at
\* (inset,inset), (inset,height-inset), (width-inset,inset) and
\* (width-inset,height-inset), whatever the pad counts, pitch and corner
\* depth; with mounting disabled no hole is emitted.
HoleCount(px, py) ==
    Cardinality({n \in 1..Len(plain_holes) :
                    plain_holes[n].x = in_to_mm(px) /\ plain_holes[n].y = in_to_mm(py)})
ExpectedHoles ==
    << <<args.inset, args.inset>>,
       <<args.inset, args.length - args.inset>>,
       <<args.width - args.inset, args.inset>>,
       <<args.width - args.inset, args.length - args.inset>> >>

C4_MountingHoles ==
    (pc \in {"origin", "outer", "inner", "done"}) =>
        IF MountingEnabled
        THEN /\ Len(plain_holes) = 4
             /\ \A e \in 1..4 :
                   HoleCount(ExpectedHoles[e][1], ExpectedHoles[e][2])
                     = Cardinality({f \in 1..4 : ExpectedHoles[f] = ExpectedHoles[e]})
        ELSE Len(plain_holes) = 0

\* holes on a board whose width and length differ, with pads emitted
C4_Witness ==
    /\ Done /\ MountingEnabled /\ Len(plain_holes) = 4
    /\ width # height /\ Len(signals) > 0
    /\ Cardinality({ExpectedHoles[e] : e \in 1..4}) = 4

\* C5: for W >= 1, H >= 1 the mean of the X coordinates of all W*H grid
\* positions (before exclusion) is width/2 and the mean of the Y coordinates
\* is height/2; the first and the last column are equally far from the left
\* and right edges, and likewise the rows.
RECURSIVE SumX(_), SumY(_)
SumX(s) == IF s = <<>> THEN 0 ELSE s[1].x + SumX(Tail(s))
SumY(s) == IF s = <<>> THEN 0 ELSE s[1].y + SumY(Tail(s))

C5_GridCentred ==
    (Done /\ pads_w >= 1 /\ pads_h >= 1) =>
        /\ Len(grid) = pads_w * pads_h
        /\ 2 * SumX(grid) = Len(grid) * width
        /\ 2 * SumY(grid) = Len(grid) * height
        /\ pad_x_orig + (pad_x_orig + (pads_w - 1) * grid_pitch) = width
        /\ pad_y_orig + (pad_y_orig + (pads_h - 1) * grid_pitch) = height
        /\ \A n \in 1..Len(grid) :
              /\ grid[n].x = pad_x_orig + grid[n].i * grid_pitch
              /\ grid[n].y = pad_y_orig + grid[n].j * grid_pitch

\* a grid of several columns and rows with corner pads excluded
C5_Witness ==
    /\ Done /\ pads_w >= 2 /\ pads_h >= 3
    /\ width # height
    /\ Len(signals) < Len(grid) /\ Len(signals) > 0

\* C6: no pad is emitted iff W <= 0, or H <= 0, or mounting is enabled and
\* the corner blocks cover the whole grid (2k >= W and 2k >= H); in each of
\* these cases the run still runs to its end, and with mounting enabled the
\* four holes are still emitted.
Degenerate ==
    \/ pads_w <= 0
    \/ pads_h <= 0
    \/ (MountingEnabled /\ 2 * exclude_corner_pads >= pads_w
                        /\ 2 * exclude_corner_pads >= pads_h)

C6_EmptyIffDegenerate ==
    /\ Done => ((Len(signals) = 0) <=> Degenerate)
    /\ (Resolved /\ Degenerate) =>
          /\ Done \/ ENABLED Next
          /\ Len(signals) = 0
          /\ (Done /\ MountingEnabled) => Len(plain_holes) = 4

\* the 2x2 grid with corner depth 3: every pad excluded, four holes emitted
C6_Witness ==
    /\ Done /\ MountingEnabled
    /\ pads_w = 2 /\ pads_h = 2 /\ exclude_corner_pads = 3
    /\ Len(grid) = 4 /\ Len(signals) = 0 /\ Len(plain_holes) = 4

\* C7: exclusion is index-based: the pad at (i,j) is skipped iff mounting is
\* enabled and (i < k or i >= W-k) and (j < k or j >= H-k).  The emitted
\* indices and their identifiers are therefore the values of expressions in
\* (W, H, k, mountingEnabled) alone, so two runs agreeing on these four emit
\* the same indices with the same identifiers whatever width, height, pitch
\* and inset are; too_close plays no part.
IndexKept(p) ==
    ~(/\ MountingEnabled
      /\ (p[1] < exclude_corner_pads \/ p[1] >= pads_w - exclude_corner_pads)
      /\ (p[2] < exclude_corner_pads \/ p[2] >= pads_h - exclude_corner_pads))
KeptIndices == {p \in GridIndices : IndexKept(p)}
RankOf(p) ==
    Cardinality({q \in KeptIndices : q = p \/ ColumnMajorBefore(q, p)})

C7_IndexBasedExclusion ==
    Done =>
        /\ EmittedIndices = KeptIndices
        /\ \A n \in 1..Len(signals) :
              signals[n].name = RankOf(<<signals[n].i, signals[n].j>>)

\* a pad emitted with its centre closer than 0.1875 inch to a mounting hole,
\* while another pad of the same run is excluded
C7_Witness ==
    /\ Done /\ MountingEnabled
    /\ Len(signals) < Len(grid)
    /\ \E n \in 1..Len(grid) :
          /\ EmittedAt(grid[n].i, grid[n].j)
          /\ too_close(grid[n].x, grid[n].y, default_threshold)

\* C8: the pad counts are resolved per axis: an explicit count is used
\* verbatim (0 and negative values included); an absent one is
\* floor((dimension - 0.015)/gridPitch), with width for the width count and
\* height (the length argument) for the length count.
IsFloorOf(n, dimension) ==
    /\ n * args.grid <= dimension - 30
    /\ dimension - 30 < (n + 1) * args.grid

C8_CountResolution ==
    Resolved =>
        /\ IF args.w # None THEN pads_w = args.w[1]
                            ELSE IsFloorOf(pads_w, args.width)
        /\ IF args.l # None THEN pads_h = args.l[1]
                            ELSE IsFloorOf(pads_h, args.length)

\* C9: the emitted pad set is mirror-symmetric: the pad at (i,j) is emitted
\* iff the pad at (W-1-i, j) is, iff the pad at (i, H-1-j) is.
C9_MirrorSymmetry ==
    Done =>
        \A p \in GridIndices :
            /\ EmittedAt(p[1], p[2]) <=> EmittedAt(pads_w - 1 - p[1], p[2])
            /\ EmittedAt(p[1], p[2]) <=> EmittedAt(p[1], pads_h - 1 - p[2])

\* some pads excluded, some emitted, on a grid of at least 3 by 3
C9_Witness ==
    /\ Done /\ MountingEnabled /\ exclude_corner_pads >= 1
    /\ pads_w >= 3 /\ pads_h >= 3
    /\ Len(signals) > 0 /\ Len(signals) < Len(grid)
    /\ ~EmittedAt(pads_w - 1, pads_h - 1)

\* C10: when the count of an axis is computed and is >= 1, every grid
\* position on that axis is at least (border + gridPitch)/2 from both board
\* edges.
C10_ComputedGridInsideBoard ==
    \A n \in 1..Len(grid) :
        /\ (args.w = None /\ pads_w >= 1) =>
              /\ 30 + grid_pitch <= 2 * grid[n].x
              /\ 2 * grid[n].x <= 2 * width - (30 + grid_pitch)
        /\ (args.l = None /\ pads_h >= 1) =>
              /\ 30 + grid_pitch <= 2 * grid[n].y
              /\ 2 * grid[n].y <= 2 * height - (30 + grid_pitch)

\* both counts computed; the rows sit exactly on the margin
C10_Witness ==
    /\ Done /\ args.w = None /\ args.l = None
    /\ pads_w >= 2 /\ pads_h >= 2
    /\ Len(grid) = pads_w * pads_h
    /\ 2 * pad_y_orig = 30 + grid_pitch
    /\ 2 * pad_x_orig > 30 + grid_pitch

====
